---- MODULE Spec2Model ----
(***************************************************************************)
(* Reminder monitoring of ava_voice_ai/api/reminders.py: the due rule      *)
(* is_reminder_due, the background loop monitor_reminders and the          *)
(* start / stop / status control handlers, over a reminder store.          *)
(*                                                                         *)
(* Instants are seconds since 00:00:00 of day 0 (a Monday).  Strings are   *)
(* sequences of one-character strings, so that strftime("%H:%M") and       *)
(* map(int, s.split(':')) are computed as the code computes them.          *)
(* An Optional value is <<>> (None) or <<v>>.                              *)
(***************************************************************************)
EXTENDS Integers, Sequences, FiniteSets, TLC

\* ------------------------------------------------------------------ bounds
\* Number of clock instants after the first one that a run can reach.
MaxInstant == 6
\* Number of loop tasks start_reminder_monitoring may create in one run.
MaxTasks == 2

\* --------------------------------------------------------------- optionals
None == <<>>
Some(v) == <<v>>
Val(o) == o[1]

\* ------------------------------------------------------------ time helpers
SecondsPerDay == 24 * 60 * 60

\* datetime.date(): the local calendar date of an instant
DateOf(t) == t \div SecondsPerDay

\* hour and minute fields of an instant
HourOf(t) == (t % SecondsPerDay) \div 3600
MinuteOf(t) == ((t % SecondsPerDay) \div 60) % 60

DigitChars == <<"0", "1", "2", "3", "4", "5", "6", "7", "8", "9">>

\* now.strftime("%H:%M"): zero-padded two-digit hour and minute
strftime_HM(t) ==
    << DigitChars[(HourOf(t) \div 10) + 1], DigitChars[(HourOf(t) % 10) + 1], ":",
       DigitChars[(MinuteOf(t) \div 10) + 1], DigitChars[(MinuteOf(t) % 10) + 1] >>

DayNames == <<"Monday", "Tuesday", "Wednesday", "Thursday", "Friday", "Saturday", "Sunday">>

\* now.strftime("%A"): the weekday name
strftime_A(t) == DayNames[(DateOf(t) % 7) + 1]

\* ---------------------------------------------------------- string parsing
IsDigit(c) == \E i \in 1..10 : DigitChars[i] = c
DigitVal(c) == (CHOOSE i \in 1..10 : DigitChars[i] = c) - 1

\* s.split(sep): the parts of s between the occurrences of sep
RECURSIVE Split(_, _)
Split(s, sep) ==
    IF \A i \in 1..Len(s) : s[i] # sep
    THEN << s >>
    ELSE LET k == CHOOSE i \in 1..Len(s) :
                     s[i] = sep /\ \A j \in 1..(i - 1) : s[j] # sep
         IN  << SubSeq(s, 1, k - 1) >> \o Split(SubSeq(s, k + 1, Len(s)), sep)

\* whether int(s) succeeds (decimal digits only; no ValueError)
IntOk(s) == Len(s) > 0 /\ \A i \in 1..Len(s) : IsDigit(s[i])

\* int(s) for a string of decimal digits
RECURSIVE IntOf(_)
IntOf(s) ==
    IF Len(s) = 0 THEN 0
    ELSE 10 * IntOf(SubSeq(s, 1, Len(s) - 1)) + DigitVal(s[Len(s)])

\* h, m = map(int, s.split(':')): raises ValueError unless there are exactly
\* two parts and each converts
ParseHM(s) ==
    LET parts == Split(s, ":")
    IN  IF Len(parts) = 2 /\ IntOk(parts[1]) /\ IntOk(parts[2])
        THEN [ok |-> TRUE, hour |-> IntOf(parts[1]), minute |-> IntOf(parts[2])]
        ELSE [ok |-> FALSE, hour |-> 0, minute |-> 0]

Abs(x) == IF x < 0 THEN 0 - x ELSE x

\* ------------------------------------------------------------ the due rule
Returned(b) == [raised |-> FALSE, value |-> b]
Raised == [raised |-> TRUE, value |-> FALSE]

\* the due rule without its is_active test
is_reminder_due_NoActiveCheck(reminder, current_time, current_day, wall) ==
    LET rt == ParseHM(reminder.reminder_time)
        ct == ParseHM(current_time)
        time_diff == Abs((ct.hour * 60 + ct.minute) - (rt.hour * 60 + rt.minute))
    IN  IF reminder.snooze_until # None /\ Val(reminder.snooze_until) > wall
        THEN Returned(FALSE)
        ELSE IF ~rt.ok \/ ~ct.ok THEN Raised
        ELSE IF time_diff > 1 THEN Returned(FALSE)
        ELSE IF /\ reminder.is_recurring
                /\ reminder.days_of_week # {}
                /\ current_day \notin reminder.days_of_week
        THEN Returned(FALSE)
        ELSE IF /\ reminder.last_triggered # None
                /\ DateOf(Val(reminder.last_triggered)) = DateOf(wall)
        THEN Returned(FALSE)
        ELSE Returned(TRUE)

\* the due rule with the time difference taken around midnight
is_reminder_due_Wraparound(reminder, current_time, current_day, wall) ==
    LET rt == ParseHM(reminder.reminder_time)
        ct == ParseHM(current_time)
        diff == Abs((ct.hour * 60 + ct.minute) - (rt.hour * 60 + rt.minute))
        time_diff == IF diff > 12 * 60 THEN 24 * 60 - diff ELSE diff
    IN  IF ~reminder.is_active THEN Returned(FALSE)
        ELSE IF reminder.snooze_until # None /\ Val(reminder.snooze_until) > wall
        THEN Returned(FALSE)
        ELSE IF ~rt.ok \/ ~ct.ok THEN Raised
        ELSE IF time_diff > 1 THEN Returned(FALSE)
        ELSE IF /\ reminder.is_recurring
                /\ reminder.days_of_week # {}
                /\ current_day \notin reminder.days_of_week
        THEN Returned(FALSE)
        ELSE IF /\ reminder.last_triggered # None
                /\ DateOf(Val(reminder.last_triggered)) = DateOf(wall)
        THEN Returned(FALSE)
        ELSE Returned(TRUE)

\* the due rule with the weekday test applied whatever is_recurring says
is_reminder_due_DaysAlways(reminder, current_time, current_day, wall) ==
    LET rt == ParseHM(reminder.reminder_time)
        ct == ParseHM(current_time)
        time_diff == Abs((ct.hour * 60 + ct.minute) - (rt.hour * 60 + rt.minute))
    IN  IF ~reminder.is_active THEN Returned(FALSE)
        ELSE IF reminder.snooze_until # None /\ Val(reminder.snooze_until) > wall
        THEN Returned(FALSE)
        ELSE IF ~rt.ok \/ ~ct.ok THEN Raised
        ELSE IF time_diff > 1 THEN Returned(FALSE)
        ELSE IF /\ reminder.days_of_week # {}
                /\ current_day \notin reminder.days_of_week
        THEN Returned(FALSE)
        ELSE IF /\ reminder.last_triggered # None
                /\ DateOf(Val(reminder.last_triggered)) = DateOf(wall)
        THEN Returned(FALSE)
        ELSE Returned(TRUE)

\* the due rule with a reminder that has ever been triggered never due again
is_reminder_due_OnceOnly(reminder, current_time, current_day, wall) ==
    LET rt == ParseHM(reminder.reminder_time)
        ct == ParseHM(current_time)
        time_diff == Abs((ct.hour * 60 + ct.minute) - (rt.hour * 60 + rt.minute))
    IN  IF ~reminder.is_active THEN Returned(FALSE)
        ELSE IF reminder.snooze_until # None /\ Val(reminder.snooze_until) > wall
        THEN Returned(FALSE)
        ELSE IF ~rt.ok \/ ~ct.ok THEN Raised
        ELSE IF time_diff > 1 THEN Returned(FALSE)
        ELSE IF /\ reminder.is_recurring
                /\ reminder.days_of_week # {}
                /\ current_day \notin reminder.days_of_week
        THEN Returned(FALSE)
        ELSE IF reminder.last_triggered # None
        THEN Returned(FALSE)
        ELSE Returned(TRUE)

\* is_reminder_due(reminder, current_time, current_day); wall is the value
\* the function's own datetime.now() calls return when it runs
is_reminder_due(reminder, current_time, current_day, wall) ==
    LET rt == ParseHM(reminder.reminder_time)
        ct == ParseHM(current_time)
        time_diff == Abs((ct.hour * 60 + ct.minute) - (rt.hour * 60 + rt.minute))
    IN  IF ~reminder.is_active THEN Returned(FALSE)
        ELSE IF reminder.snooze_until # None /\ Val(reminder.snooze_until) > wall
        THEN Returned(FALSE)
        ELSE IF ~rt.ok \/ ~ct.ok THEN Raised
        ELSE IF time_diff > 1 THEN Returned(FALSE)
        ELSE IF /\ reminder.is_recurring
                /\ reminder.days_of_week # {}
                /\ current_day \notin reminder.days_of_week
        THEN Returned(FALSE)
        ELSE IF /\ reminder.last_triggered # None
                /\ DateOf(Val(reminder.last_triggered)) = DateOf(wall)
        THEN Returned(FALSE)
        ELSE Returned(TRUE)

\* ------------------------------------------------------------------ inputs
\* the (user_id, check_interval) pairs a start request may carry; 60 seconds
\* is the handler's default interval
StartArgs == { <<"u1", 60>>, <<"u2", 30>> }

T2358 == <<"2", "3", ":", "5", "8">>
T2359 == <<"2", "3", ":", "5", "9">>
T0000 == <<"0", "0", ":", "0", "0">>
\* a time-of-day with seconds: three parts, not "HH:MM"
TBad == <<"2", "3", ":", "5", "9", ":", "0", "0">>

At(day, h, m) == day * SecondsPerDay + h * 3600 + m * 60

\* the instants the clock takes, in order: the minutes around midnight of
\* every day, starting at 23:58 of day 0
DayTimes == << At(0, 0, 0), At(0, 0, 1), At(0, 0, 2), At(0, 23, 58), At(0, 23, 59) >>
Instant(k) ==
    ((k + 3) \div Len(DayTimes)) * SecondsPerDay + DayTimes[((k + 3) % Len(DayTimes)) + 1]
FirstInstant == Instant(0)
Instants == { Instant(k) : k \in 0..MaxInstant }

Reminder(uid, time, active, recurring, days, snooze, last) ==
    [ id |-> 0, user_id |-> uid, reminder_time |-> time, is_active |-> active,
      is_recurring |-> recurring, days_of_week |-> days,
      snooze_until |-> snooze, last_triggered |-> last ]

\* the reminder records the store starts with
RPlain == Reminder("u1", T2359, TRUE, FALSE, {}, None, None)
RTuesday == Reminder("u1", T0000, TRUE, TRUE, {"Tuesday"}, None, None)
RBad == Reminder("u1", TBad, TRUE, FALSE, {}, None, None)
RSnoozed == Reminder("u1", T2359, TRUE, FALSE, {}, Some(At(0, 23, 59)), None)
RTriggered == Reminder("u1", T2358, TRUE, TRUE, {}, None, Some(At(0, 0, 0)))
ROther == Reminder("u2", T2359, TRUE, FALSE, {}, None, None)
RInactive == Reminder("u1", T2359, FALSE, FALSE, {}, None, None)

InitialStores ==
    { << RPlain, RPlain >>, << RPlain, RBad >>, << RBad, RPlain >>,
      << RSnoozed, RPlain >>, << RTuesday, RTriggered >>, << ROther, RInactive >> }

\* ------------------------------------------------------------------- state
VARIABLES
    reminder_monitor_running,   \* the global flag
    reminder_monitor_task,      \* the global handle: None or Some(task index)
    tasks,                      \* the loop tasks created so far
    store,                      \* the reminder store: a sequence of records
    clock,                      \* the wall clock, datetime.now()
    emitted,                    \* the reminder the step just taken emitted: None or Some(id)
    response,                   \* what the step just taken returned to its caller
    evaluation                  \* a direct call of is_reminder_due: None, or its
                                \* arguments and result

vars == << reminder_monitor_running, reminder_monitor_task, tasks, store,
           clock, emitted, response, evaluation >>

\* ------------------------------------------------------------ the store
\* db.get_reminders(user_id, active_only)
get_reminders(st, user_id, active_only) ==
    LET Keep(r) == r.user_id = user_id /\ (active_only => r.is_active)
    IN  SelectSeq(st, Keep)

\* db.update_reminder(id, ReminderUpdate(last_triggered=now))
update_reminder(st, id, now) ==
    [ k \in DOMAIN st |->
        IF st[k].id = id THEN [st[k] EXCEPT !.last_triggered = Some(now)]
        ELSE st[k] ]

\* ------------------------------------------------------------ loop tasks
\* A task is the coroutine monitor_reminders() with the user_id and
\* check_interval of the start call that created it.  pc is where it is
\* suspended: "created" (not yet run), "fetch" (in await db.get_reminders),
\* "update" (in await db.update_reminder for due[idx]), "sleep" (in
\* asyncio.sleep until wake), "cancelled" or "done".  now, wall, fetched and
\* due are the current tick's locals (kept while it sleeps); err is what the
\* last finished tick logged as an error.
NewTask(uid, interval) ==
    [ pc |-> "created", user_id |-> uid, check_interval |-> interval,
      now |-> None, wall |-> None, fetched |-> <<>>, due |-> <<>>, idx |-> 0,
      wake |-> 0, err |-> "none" ]

DeadTask(pc) ==
    [ pc |-> pc, user_id |-> "", check_interval |-> 0,
      now |-> None, wall |-> None, fetched |-> <<>>, due |-> <<>>, idx |-> 0,
      wake |-> 0, err |-> "none" ]

Alive(t) == t.pc \notin {"cancelled", "done"}
MidTick(t) == t.pc \in {"fetch", "update"}

\* await asyncio.sleep(check_interval), entered at instant clk
Sleep(t, clk) == [t EXCEPT !.pc = "sleep", !.wake = clk + t.check_interval]

\* a loop that returns after one tick instead of sleeping
EndTick_Returns(t, clk) == DeadTask("done")

\* the tick's last line: it ran to its sleep without an exception
EndTick(t, clk) == Sleep([t EXCEPT !.err = "none"], clk)

\* a loop whose handler lets the error out: the task ends with it
OnException_Dies(t, what, clk) == DeadTask("done")

\* the except Exception branch: log the error, then sleep
OnException(t, what, clk) == Sleep([t EXCEPT !.err = what], clk)

\* a stop that flips the flag and never cancels the task
CancelTask_Forgotten(ts, h) == ts

\* a cancel that reaches the task only in its sleep
CancelTask_AtSleepOnly(ts, h) ==
    IF ts[h].pc = "sleep" THEN [ts EXCEPT ![h] = DeadTask("cancelled")] ELSE ts

\* task.cancel(): CancelledError is thrown into the coroutine at the await
\* it is suspended in; it is no Exception, so the loop's handler lets it out
CancelTask(ts, h) == [ts EXCEPT ![h] = DeadTask("cancelled")]

\* the "Due reminder" log line for reminder r
Emission(r) == Some(r.id)

\* an update call aimed at the head of the fetched list
UpdateTarget_FirstFetched(t) == t.fetched[1].id

\* the id passed to db.update_reminder: that of the due reminder the tick
\* has just logged
UpdateTarget(t) == t.due[t.idx].id

\* what a control handler returns; raised tells an exception from a return
Respond(op, message) ==
    [ op |-> op, message |-> message, raised |-> FALSE,
      running |-> FALSE, task_active |-> FALSE, due |-> <<>> ]

\* a step that is no control request returns nothing to a client
NoResponse == Respond("none", "")

Init ==
    /\ reminder_monitor_running = FALSE
    /\ reminder_monitor_task = None
    /\ tasks = <<>>
    /\ \E s \in InitialStores :
          store = [ k \in DOMAIN s |-> [s[k] EXCEPT !.id = k] ]
    /\ clock = FirstInstant
    /\ emitted = None
    /\ response = NoResponse
    /\ evaluation = None

\* ------------------------------------------------------- control handlers
\* a start handler without its guard
AlreadyRunning_Ignored == FALSE

\* the test `if reminder_monitor_running:` of the start handler
AlreadyRunning == reminder_monitor_running

\* POST /monitor/start.  The handler has no await, so it is one step; the
\* background task it adds only returns the handle and changes no state.
start_reminder_monitoring(uid, interval) ==
    IF AlreadyRunning
    THEN /\ response' = Respond("start", "Reminder monitoring is already running")
         /\ emitted' = None
         /\ UNCHANGED << reminder_monitor_running, reminder_monitor_task, tasks,
                         store, clock, evaluation >>
    ELSE /\ Len(tasks) < MaxTasks
         /\ reminder_monitor_running' = TRUE
         /\ tasks' = Append(tasks, NewTask(uid, interval))
         /\ reminder_monitor_task' = Some(Len(tasks) + 1)
         /\ response' = Respond("start", "Reminder monitoring started")
         /\ emitted' = None
         /\ UNCHANGED << store, clock, evaluation >>

\* a stop handler that leaves the handle in place
ClearedHandle_Kept == reminder_monitor_task

\* `reminder_monitor_task = None` of the stop handler
ClearedHandle == None

\* POST /monitor/stop.  A store update the cancelled task had in flight
\* either reaches the store or is dropped.
stop_reminder_monitoring ==
    IF ~reminder_monitor_running
    THEN /\ response' = Respond("stop", "Reminder monitoring is not running")
         /\ emitted' = None
         /\ UNCHANGED << reminder_monitor_running, reminder_monitor_task, tasks,
                         store, clock, evaluation >>
    ELSE /\ reminder_monitor_running' = FALSE
         /\ IF reminder_monitor_task # None
            THEN LET h == Val(reminder_monitor_task)
                     t == tasks[h]
                 IN  /\ tasks' = CancelTask(tasks, h)
                     /\ reminder_monitor_task' = ClearedHandle
                     /\ \E landed \in BOOLEAN :
                           store' = IF t.pc = "update" /\ landed
                                    THEN update_reminder(store, UpdateTarget(t), Val(t.now))
                                    ELSE store
            ELSE UNCHANGED << tasks, reminder_monitor_task, store >>
         /\ response' = Respond("stop", "Reminder monitoring stopped")
         /\ emitted' = None
         /\ UNCHANGED << clock, evaluation >>

\* reminder_monitor_task.done()
TaskDone(h) == ~Alive(tasks[h])

\* the body GET /monitor/status returns
Status ==
    [ running |-> reminder_monitor_running,
      task_active |-> reminder_monitor_task # None
                      /\ ~TaskDone(Val(reminder_monitor_task)) ]

\* GET /monitor/status
get_monitoring_status ==
    /\ response' = [ Respond("status", "") EXCEPT
                        !.running = Status.running,
                        !.task_active = Status.task_active ]
    /\ emitted' = None
    /\ UNCHANGED << reminder_monitor_running, reminder_monitor_task, tasks,
                    store, clock, evaluation >>

\* ---------------------------------------------------- monitor_reminders
\* `while reminder_monitor_running:` then the tick's first lines, up to the
\* await of db.get_reminders; runs when the task is first scheduled and
\* when its sleep is over
monitor_reminders_tick(i) ==
    LET t == tasks[i]
    IN  /\ \/ t.pc = "created"
           \/ t.pc = "sleep" /\ clock >= t.wake
        /\ tasks' = [tasks EXCEPT ![i] =
              IF reminder_monitor_running
              THEN [t EXCEPT !.pc = "fetch", !.now = Some(clock), !.wall = None,
                             !.fetched = <<>>, !.due = <<>>, !.idx = 0,
                             !.wake = 0]
              ELSE DeadTask("done")]
        /\ response' = NoResponse
        /\ emitted' = None
        /\ UNCHANGED << reminder_monitor_running, reminder_monitor_task, store, clock, evaluation >>

\* the tick from the return of db.get_reminders to its next await: the
\* filter over the fetched reminders, then either the first due reminder's
\* log line and update call, or the sleep.  The block has no await, so it
\* is one step and its datetime.now() reads all give wall; the first
\* reminder whose evaluation raises ends the filter and the tick.
Evaluate(t, snapshot, wall) ==
    LET current_time == strftime_HM(Val(t.now))
        current_day == strftime_A(Val(t.now))
        Res(r) == is_reminder_due(r, current_time, current_day, wall)
        IsDue(r) == Res(r).value
        seen == [t EXCEPT !.fetched = snapshot, !.wall = Some(wall)]
        due_reminders == SelectSeq(snapshot, IsDue)
    IN  IF \E k \in 1..Len(snapshot) : Res(snapshot[k]).raised
        THEN OnException(seen, "evaluate", wall)
        ELSE IF due_reminders = <<>>
        THEN EndTick(seen, wall)
        ELSE [seen EXCEPT !.pc = "update", !.due = due_reminders, !.idx = 1]

monitor_reminders_fetched(i) ==
    LET t == tasks[i]
    IN  /\ t.pc = "fetch"
        /\ \E ok \in BOOLEAN :
              LET next == IF ok
                          THEN Evaluate(t, get_reminders(store, t.user_id, TRUE), clock)
                          ELSE OnException(t, "fetch", clock)
              IN  /\ tasks' = [tasks EXCEPT ![i] = next]
                  /\ emitted' = IF next.pc = "update"
                              THEN Emission(next.due[1])
                              ELSE None
        /\ response' = NoResponse
        /\ UNCHANGED << reminder_monitor_running, reminder_monitor_task, store, clock, evaluation >>

\* the tick from the return of db.update_reminder to its next await: the
\* next due reminder's log line and update call, or the sleep
AfterUpdate(t, clk) ==
    IF t.idx < Len(t.due) THEN [t EXCEPT !.idx = t.idx + 1] ELSE EndTick(t, clk)

monitor_reminders_updated(i) ==
    LET t == tasks[i]
    IN  /\ t.pc = "update"
        /\ \E ok \in BOOLEAN :
              LET next == IF ok THEN AfterUpdate(t, clock)
                          ELSE OnException(t, "update", clock)
              IN  /\ tasks' = [tasks EXCEPT ![i] = next]
                  /\ store' = IF ok
                              THEN update_reminder(store, UpdateTarget(t), Val(t.now))
                              ELSE store
                  /\ emitted' = IF next.pc = "update"
                              THEN Emission(next.due[next.idx])
                              ELSE None
        /\ response' = NoResponse
        /\ UNCHANGED << reminder_monitor_running, reminder_monitor_task, clock, evaluation >>

\* GET /due.  The handler holds no state of the module and writes none, so
\* it is taken as one step, at the instant it reads the clock; a failing
\* store call or a raising evaluation is answered with HTTP 500.
Users == { a[1] : a \in StartArgs }

DueQuery(user_id, ok) ==
    LET current_time == strftime_HM(clock)
        current_day == strftime_A(clock)
        all_reminders == get_reminders(store, user_id, TRUE)
        results == [ k \in 1..Len(all_reminders) |->
                        is_reminder_due(all_reminders[k], current_time, current_day, clock) ]
        due == { k \in 1..Len(all_reminders) : results[k].value }
    IN  IF ~ok \/ \E k \in 1..Len(all_reminders) : results[k].raised
        THEN [ Respond("due", "") EXCEPT !.raised = TRUE ]
        ELSE [ Respond("due", "") EXCEPT
                  !.due = SelectSeq([ k \in 1..Len(all_reminders) |->
                                        IF k \in due THEN all_reminders[k].id ELSE 0 ],
                                    LAMBDA id : id # 0) ]

get_due_reminders(user_id) ==
    /\ \E ok \in BOOLEAN : response' = DueQuery(user_id, ok)
    /\ emitted' = None
    /\ UNCHANGED << reminder_monitor_running, reminder_monitor_task, tasks, store,
                    clock, evaluation >>

\* time passes
AdvanceClock ==
    /\ \E t \in Instants : t > clock /\ clock' = t
    /\ response' = NoResponse
    /\ emitted' = None
    /\ UNCHANGED << reminder_monitor_running, reminder_monitor_task, tasks, store,
                    evaluation >>

Next ==
    \/ \E a \in StartArgs : start_reminder_monitoring(a[1], a[2])
    \/ stop_reminder_monitoring
    \/ get_monitoring_status
    \/ \E u \in Users : get_due_reminders(u)
    \/ \E i \in DOMAIN tasks : monitor_reminders_tick(i)
    \/ \E i \in DOMAIN tasks : monitor_reminders_fetched(i)
    \/ \E i \in DOMAIN tasks : monitor_reminders_updated(i)
    \/ AdvanceClock

Spec == Init /\ [][Next]_vars

\* ------------------------------------------------- the due rule on its own
\* is_reminder_due called directly: the reminder and `now` are drawn from
\* the sets below, current_time and current_day are taken from `now` as the
\* callers take them, and the clock (what datetime.now() returns inside the
\* call) is `now` or later.
T0900 == <<"0", "9", ":", "0", "0">>

DueInstants ==
    { At(0, 9, 0), At(0, 9, 1), At(0, 9, 2), At(0, 23, 59), At(1, 0, 0), At(1, 9, 0) }

DueReminders ==
    { Reminder("u1", time, active, recurring, days, snooze, last) :
        time \in {T0900, T2359, TBad}, active \in BOOLEAN, recurring \in BOOLEAN,
        days \in {{}, {"Monday"}},
        snooze \in {None, Some(At(0, 9, 1))},
        last \in {None, Some(At(0, 9, 0))} }

InitDue ==
    /\ reminder_monitor_running = FALSE
    /\ reminder_monitor_task = None
    /\ tasks = <<>>
    /\ store = <<>>
    /\ emitted = None
    /\ response = NoResponse
    /\ \E r \in DueReminders, now \in DueInstants, wall \in DueInstants :
          /\ now <= wall
          /\ clock = wall
          /\ evaluation = [reminder |-> r, now |-> now, result |-> None]

\* is_reminder_due(reminder, current_time, current_day)
is_due_call ==
    /\ evaluation.result = None
    /\ evaluation' =
          [evaluation EXCEPT !.result =
              Some(is_reminder_due(evaluation.reminder, strftime_HM(evaluation.now),
                                   strftime_A(evaluation.now), clock))]
    /\ UNCHANGED << reminder_monitor_running, reminder_monitor_task, tasks, store,
                    clock, emitted, response >>

NextDue == is_due_call

SpecDue == InitDue /\ [][NextDue]_vars

\* ------------------------------------------------------------------ claims
ProgramState == << reminder_monitor_running, reminder_monitor_task, tasks, store >>

ActiveLoops == { i \in DOMAIN tasks : Alive(tasks[i]) }

\* C1: whatever the interleaving of start, stop and status calls, at most
\* one loop task is alive (able to fetch from or update the store), and it
\* is the one the handle names.
C1_SingleLoop ==
    /\ Cardinality(ActiveLoops) <= 1
    /\ \A i \in ActiveLoops : reminder_monitor_task = Some(i)

\* start, stop, start again: the first loop is gone, the second is in a tick
C1_Witness ==
    /\ Len(tasks) = 2
    /\ tasks[1].pc = "cancelled"
    /\ MidTick(tasks[2])

\* C3: a step of a tick that fails (fetch, evaluation or update) leaves the
\* loop asleep for check_interval with the error logged, the next tick is
\* then ready to run, and a loop task ends only in a step of a stop call
\* made while running.
C3_LoopSurvivesErrors ==
    [][ \A i \in DOMAIN tasks :
          /\ (MidTick(tasks[i]) /\ tasks'[i].pc = "sleep" /\ tasks'[i].err # "none")
                => /\ tasks'[i].wake = clock + tasks[i].check_interval
                   /\ reminder_monitor_running'
          /\ (tasks[i].pc = "sleep" /\ tasks[i].err # "none" /\ clock >= tasks[i].wake
                /\ reminder_monitor_running)
                => ENABLED monitor_reminders_tick(i)
          /\ (Alive(tasks[i]) /\ ~Alive(tasks'[i]))
                => /\ response'.op = "stop"
                   /\ reminder_monitor_running /\ ~reminder_monitor_running'
      ]_vars

\* a tick failed, the loop slept, and its next tick is running
C3_Witness ==
    \E i \in DOMAIN tasks :
        /\ tasks[i].pc = "fetch"
        /\ tasks[i].err \in {"fetch", "evaluate", "update"}
        /\ reminder_monitor_running

\* C4: a start call made while running answers "already running", raises
\* nothing and changes neither the flag, the handle, the loop tasks (their
\* user scope and interval included) nor the store.
C4_StartWhileRunningNoOp ==
    [][ (reminder_monitor_running /\ response'.op = "start")
          => /\ response'.message = "Reminder monitoring is already running"
             /\ ~response'.raised
             /\ UNCHANGED ProgramState
      ]_vars

\* a start just answered "already running" while a loop is in a tick
C4_Witness ==
    /\ response.op = "start"
    /\ response.message = "Reminder monitoring is already running"
    /\ \E i \in DOMAIN tasks : MidTick(tasks[i]) /\ reminder_monitor_task = Some(i)

\* C5: a stop call made while not running changes nothing; made while
\* running it clears the flag, cancels the task the handle names and clears
\* the handle; either way a status read right after it reports
\* running = false.
C5_Stop ==
    [][ response'.op = "stop"
          => /\ IF ~reminder_monitor_running
                THEN /\ UNCHANGED ProgramState
                     /\ response'.message = "Reminder monitoring is not running"
                ELSE /\ ~reminder_monitor_running'
                     /\ reminder_monitor_task # None
                     /\ ~Alive(tasks'[Val(reminder_monitor_task)])
                     /\ reminder_monitor_task' = None
             /\ ~Status'.running
             /\ ~response'.raised
      ]_vars

\* a stop just cancelled the running loop and cleared the handle
C5_Witness ==
    /\ response.op = "stop"
    /\ response.message = "Reminder monitoring stopped"
    /\ ~reminder_monitor_running
    /\ reminder_monitor_task = None
    /\ \E i \in DOMAIN tasks : tasks[i].pc = "cancelled"

\* the ticks whose filter has run: their locals hold what it read
Evaluated == { i \in DOMAIN tasks : tasks[i].wall # None }

InSeq(r, seq) == \E k \in 1..Len(seq) : seq[k] = r

\* is_reminder_due on reminder r in task t's tick, its clock reads being c
DueIn(t, r, c) ==
    is_reminder_due(r, strftime_HM(Val(t.now)), strftime_A(Val(t.now)), c)

\* C2: no tick finds due (and so emits) a reminder whose last_triggered, as
\* fetched from the store, lies on the calendar date of the tick's `now`.
C2_NotDueAgainSameDate ==
    \A i \in Evaluated :
        \A k \in 1..Len(tasks[i].due) :
            LET r == tasks[i].due[k]
            IN  r.last_triggered # None
                   => DateOf(Val(r.last_triggered)) # DateOf(Val(tasks[i].now))

\* C6: in a tick whose fetched batch holds a malformed reminder_time, every
\* other fetched reminder that is due on its own is still in the tick's due
\* list (to be emitted and marked).
C6_MalformedSkipsOnlyItself ==
    \A i \in Evaluated :
        LET t == tasks[i]
        IN  (\E k \in 1..Len(t.fetched) : ~ParseHM(t.fetched[k].reminder_time).ok)
               => \A k \in 1..Len(t.fetched) :
                     DueIn(t, t.fetched[k], Val(t.wall)) = Returned(TRUE)
                        => InSeq(t.fetched[k], t.due)

C8_CancelOnlyAtSleep ==
    [][ \A i \in DOMAIN tasks :
          MidTick(tasks[i]) => tasks'[i].pc # "cancelled"
      ]_vars

\* C9: every due-check of a tick gives what it gives when evaluated against
\* the tick's captured `now`.
C9_OneInstantPerTick ==
    \A i \in Evaluated :
        LET t == tasks[i]
        IN  \A k \in 1..Len(t.fetched) :
               DueIn(t, t.fetched[k], Val(t.wall)) = DueIn(t, t.fetched[k], Val(t.now))

\* C10: a reminder whose snooze_until is strictly after the tick's `now` is
\* not found due by that tick.
C10_SnoozedNeverDue ==
    \A i \in Evaluated :
        LET t == tasks[i]
        IN  \A k \in 1..Len(t.fetched) :
               (t.fetched[k].snooze_until # None
                  /\ Val(t.fetched[k].snooze_until) > Val(t.now))
                  => ~InSeq(t.fetched[k], t.due)

\* ------------------------------------------- the monitor left running
\* The loop with nothing in its way: monitoring is started with the default
\* check_interval and never stopped, no store call fails, a task that can
\* run does so before the clock moves, and the clock moves to the next
\* instant only while monitoring is on.
DefaultInterval == 60

Ready(t) ==
    \/ t.pc \in {"created", "fetch", "update"}
    \/ t.pc = "sleep" /\ clock >= t.wake

SteadyStart(uid) == start_reminder_monitoring(uid, DefaultInterval)

SteadyFetched(i) == monitor_reminders_fetched(i) /\ tasks'[i].err # "fetch"

SteadyUpdated(i) == monitor_reminders_updated(i) /\ tasks'[i].err # "update"

SteadyClock ==
    /\ reminder_monitor_running
    /\ \A i \in DOMAIN tasks : ~Ready(tasks[i])
    /\ AdvanceClock
    /\ \A t \in Instants : t > clock => clock' <= t

NextSteady ==
    \/ \E u \in Users : SteadyStart(u)
    \/ get_monitoring_status
    \/ \E u \in Users : get_due_reminders(u)
    \/ \E i \in DOMAIN tasks : monitor_reminders_tick(i)
    \/ \E i \in DOMAIN tasks : SteadyFetched(i)
    \/ \E i \in DOMAIN tasks : SteadyUpdated(i)
    \/ SteadyClock

SpecSteady == Init /\ [][NextSteady]_vars /\ WF_vars(NextSteady)

\* ------------------------------------------- claims about the due rule
\* (checked under SpecDue)
Called == evaluation.result # None
CallResult == Val(evaluation.result)

\* minutes since midnight of an instant and of a parsed "HH:MM"
MinutesOfInstant(t) == HourOf(t) * 60 + MinuteOf(t)
MinutesOfTime(s) == ParseHM(s).hour * 60 + ParseHM(s).minute
WindowDiff == Abs(MinutesOfInstant(evaluation.now)
                    - MinutesOfTime(evaluation.reminder.reminder_time))

WeekdayUnconstrained(r) == ~r.is_recurring \/ r.days_of_week = {}

\* C11: for a reminder with is_active = false the call returns False (and
\* does not raise), whatever its other fields, `now` and the clock.
C11_InactiveNeverDue ==
    (Called /\ ~evaluation.reminder.is_active) => CallResult = Returned(FALSE)

\* an inactive reminder that every other check lets through was evaluated
C11_Witness ==
    /\ Called
    /\ ~evaluation.reminder.is_active
    /\ evaluation.reminder.reminder_time = T0900
    /\ evaluation.now = At(0, 9, 0)
    /\ evaluation.reminder.snooze_until = None
    /\ evaluation.reminder.last_triggered = None
    /\ ~evaluation.reminder.is_recurring

\* C12: the call returns True only if the minutes since midnight of `now`
\* and of reminder_time differ by at most 1, the difference taken without
\* wraparound; when every other check passes it returns True exactly then
\* (09:00 against 09:01 True, against 09:02 False; 23:59 against 00:00
\* False).
C12_TimeWindow ==
    (Called /\ ParseHM(evaluation.reminder.reminder_time).ok)
       => /\ CallResult.value => WindowDiff <= 1
          /\ ( /\ evaluation.reminder.is_active
               /\ evaluation.reminder.snooze_until = None
               /\ WeekdayUnconstrained(evaluation.reminder)
               /\ evaluation.reminder.last_triggered = None )
                => (CallResult = Returned(TRUE) <=> WindowDiff <= 1)

\* "09:00" evaluated at 09:01 was found due
C12_Witness ==
    /\ Called
    /\ evaluation.reminder.reminder_time = T0900
    /\ evaluation.now = At(0, 9, 1)
    /\ CallResult = Returned(TRUE)

\* C13: with is_recurring true and days_of_week non-empty the call returns
\* True only if the weekday name of `now` is in days_of_week; with
\* is_recurring false or days_of_week empty the result is the same for
\* every weekday name.
C13_WeekdayFilter ==
    Called
       => /\ ~WeekdayUnconstrained(evaluation.reminder)
                => (CallResult.value
                      => strftime_A(evaluation.now) \in evaluation.reminder.days_of_week)
          /\ WeekdayUnconstrained(evaluation.reminder)
                => \A k \in 1..Len(DayNames) :
                      is_reminder_due(evaluation.reminder, strftime_HM(evaluation.now),
                                      DayNames[k], clock) = CallResult

\* a recurring Monday reminder, its time matching, was refused on a Tuesday
C13_Witness ==
    /\ Called
    /\ evaluation.reminder.is_recurring
    /\ evaluation.reminder.days_of_week = {"Monday"}
    /\ evaluation.reminder.is_active
    /\ evaluation.reminder.reminder_time = T0900
    /\ evaluation.reminder.last_triggered = None
    /\ evaluation.now = At(1, 9, 0)
    /\ strftime_A(evaluation.now) = "Tuesday"
    /\ CallResult = Returned(FALSE)

\* C14: for a reminder last triggered on a calendar date before that of
\* `now`, the call returns True when the reminder is active, its
\* snooze_until is not after `now`, its time is within the window and its
\* weekday test passes.
C14_EligibleOnNewDate ==
    ( /\ Called
      /\ evaluation.reminder.last_triggered # None
      /\ DateOf(Val(evaluation.reminder.last_triggered)) < DateOf(evaluation.now)
      /\ evaluation.reminder.is_active
      /\ \/ evaluation.reminder.snooze_until = None
         \/ Val(evaluation.reminder.snooze_until) <= evaluation.now
      /\ ParseHM(evaluation.reminder.reminder_time).ok
      /\ WindowDiff <= 1
      /\ \/ WeekdayUnconstrained(evaluation.reminder)
         \/ strftime_A(evaluation.now) \in evaluation.reminder.days_of_week )
       => CallResult = Returned(TRUE)

\* a reminder triggered on day 0 was found due at its time on day 1
C14_Witness ==
    /\ Called
    /\ evaluation.reminder.last_triggered = Some(At(0, 9, 0))
    /\ evaluation.now = At(1, 9, 0)
    /\ CallResult = Returned(TRUE)

\* ------------------------------------------------ claims about the store
\* C15: no step of the loop, of a control handler or of the list-due query
\* changes the number of reminders or any field but last_triggered; a
\* last_triggered that changes is that of the reminder a tick has just
\* logged as due and is set to that tick's instant; the list-due query
\* leaves the store as it is.
C15_LoopWritesOnlyLastTriggered ==
    [][ /\ Len(store') = Len(store)
        /\ \A k \in DOMAIN store :
              /\ [store'[k] EXCEPT !.last_triggered = None]
                    = [store[k] EXCEPT !.last_triggered = None]
              /\ store'[k].last_triggered # store[k].last_triggered
                    => \E i \in DOMAIN tasks :
                          /\ tasks[i].pc = "update"
                          /\ tasks[i].due[tasks[i].idx] = store[k]
                          /\ store'[k].last_triggered = tasks[i].now
        /\ response'.op = "due" => store' = store ]_vars

\* the loop has written a trigger instant and a list-due query has then
\* been answered
C15_Witness ==
    /\ response.op = "due"
    /\ ~response.raised
    /\ \E k \in DOMAIN store :
          /\ store[k].last_triggered # None
          /\ Val(store[k].last_triggered) >= FirstInstant

\* ------------------------------------------ claims about stop and status
\* C16: a loop task the handle no longer names (its stop has returned) is
\* dead and takes no step again: it neither fetches nor updates, whatever
\* the later operations, a later start included; every "Due reminder" line
\* and every store write comes from a step of the task the handle names.
C16_StoppedLoopIsSilent ==
    [][ /\ \A i \in DOMAIN tasks :
              reminder_monitor_task # Some(i)
                 => ~Alive(tasks[i]) /\ tasks'[i] = tasks[i]
        /\ emitted' # None
              => /\ reminder_monitor_task # None
                 /\ tasks'[Val(reminder_monitor_task)] # tasks[Val(reminder_monitor_task)]
        /\ store' # store => reminder_monitor_task # None ]_vars

\* the first loop was stopped, a later start set the flag again and the
\* second loop has just logged a due reminder
C16_Witness ==
    /\ Len(tasks) = 2
    /\ tasks[1].pc = "cancelled"
    /\ reminder_monitor_running
    /\ reminder_monitor_task = Some(2)
    /\ tasks[2].pc = "update"
    /\ emitted # None

\* C17: the flag is true exactly when a handle is stored; whenever the flag
\* is true the task the handle names is alive, so the status body never
\* has running = true with task_active = false, and no status response
\* ever reported that.
C17_FlagAndHandleAgree ==
    /\ reminder_monitor_running <=> reminder_monitor_task # None
    /\ reminder_monitor_running
          => /\ reminder_monitor_task # None
             /\ Alive(tasks[Val(reminder_monitor_task)])
             /\ Status.task_active
    /\ (response.op = "status" /\ response.running) => response.task_active

\* status was asked while the loop was running, after a tick of it had
\* ended in an error
C17_Witness ==
    /\ response.op = "status"
    /\ response.running
    /\ response.task_active
    /\ reminder_monitor_task # None
    /\ tasks[Val(reminder_monitor_task)].err # "none"

\* ------------------------------------- claims about the monitor left running
\* (checked under SpecSteady)
\* reminder r can be fired on day d: active, not snoozed, a time that the
\* monitoring, on since FirstInstant, still meets on that day, and a
\* weekday test that admits the day
EligibleOn(r, d) ==
    /\ r.is_active
    /\ r.snooze_until = None
    /\ ParseHM(r.reminder_time).ok
    /\ \/ WeekdayUnconstrained(r)
       \/ strftime_A(d * SecondsPerDay) \in r.days_of_week
    /\ \/ d > DateOf(FirstInstant)
       \/ /\ d = DateOf(FirstInstant)
          /\ MinutesOfTime(r.reminder_time) + 1 >= MinutesOfInstant(FirstInstant)

\* the window of r on day d is over
WindowOver(r, d) ==
    \/ DateOf(clock) > d
    \/ /\ DateOf(clock) = d
       /\ MinutesOfInstant(clock) > MinutesOfTime(r.reminder_time) + 1

\* C18: while monitoring runs with the default interval and no store call
\* fails, a reminder of the monitored user that is eligible on a day has
\* been fired on that day once its window is over and the loop has gone
\* back to sleep: its last_triggered carries that date or a later one.
C18_EligibleIsFired ==
    (reminder_monitor_running /\ reminder_monitor_task # None)
       => LET t == tasks[Val(reminder_monitor_task)]
          IN  t.pc = "sleep"
                => \A k \in DOMAIN store, d \in {DateOf(clock) - 1, DateOf(clock)} :
                      ( /\ d >= DateOf(FirstInstant)
                        /\ store[k].user_id = t.user_id
                        /\ EligibleOn(store[k], d)
                        /\ WindowOver(store[k], d) )
                         => /\ store[k].last_triggered # None
                            /\ DateOf(Val(store[k].last_triggered)) >= d

====
